---------------------------- MODULE Spec2Model ----------------------------
(***************************************************************************)
(* Arc-standard dependency parser of parser.py: the PartialParse          *)
(* transition system (parse_step, complete), its dependant queries         *)
(* (get_n_leftmost_deps, get_n_rightmost_deps) and the training oracle     *)
(* (get_oracle) driven by the loop of test_oracle / oracle_test.py.        *)
(*                                                                         *)
(* The specifications share the variables:                                 *)
(*   Spec        any caller: parse_step with arbitrary arguments and the   *)
(*               complete property;                                        *)
(*   SpecQuery   a caller that builds arcs with parse_step and asks the    *)
(*               two dependant queries;                                    *)
(*   SpecOracle  the loop `while not pp.complete:                          *)
(*               parse_step(get_oracle(graph))` over a gold tree;          *)
(*   SpecBatch   minibatch_parse(sentences, model, batch_size) with a      *)
(*               model that predicts anything (SpecBatchFair: the same,    *)
(*               the function keeps running until it returns or raises);   *)
(*   SpecNonProj is_non_proj of oracle_test.py applied to a gold tree.     *)
(***************************************************************************)
EXTENDS Integers, Sequences, FiniteSets, TLC

(* ------------------------------ bounds --------------------------------- *)

\* largest number of words of a sentence (ROOT excluded)
MaxN == 3

\* largest count n a caller passes to the dependant queries
MaxCount == 2

\* largest number of sentences given to minibatch_parse
MaxSentences == 3

\* largest number of words of a sentence given to minibatch_parse
MaxWords == 1

\* largest batch_size given to minibatch_parse
MaxBatch == 2

\* relation labels a caller or a gold tree may use
Deprels == {"a", "b"}

(* ------------------------- program constants --------------------------- *)

left_arc_id == 0

right_arc_id == 1

shift_id == 2

root_tag == "TOP"

\* Python's None for a deprel (get_oracle returns it with a shift)
NoneDeprel == "None"

\* Python's None for the count n of the queries (the default n=None);
\* counts a caller passes are >= 0, so -1 is free to stand for None
NoneN == -1

\* the transition ids a caller may pass: the three known ones and two others
TransitionIds == {-1, left_arc_id, right_arc_id, shift_id, 3}

\* the (transition_id, deprel) pairs a model may predict: the three known
\* ids and an unknown one, with the label DummyModel gives
Predictions == {left_arc_id, right_arc_id, shift_id, 3} \X {"deprel"}

(* ------------------------------- state --------------------------------- *)

VARIABLES
    sentence,   \* self.sentence: tags, sentence[1] is ROOT (Python index 0)
    stack,      \* self.stack, bottom first; TLA+ position k is Python k-1
    next,       \* self.next
    arcs,       \* self.arcs: sequence of <<head, dependent, deprel>>
    graph,      \* the gold DependencyGraph: [head, rel], functions on 1..n
    pc,         \* position of the oracle loop: "loop", "done", "error"
    last,       \* the last call made on the PartialParse and its outcome
    n_shift,    \* number of successful shift transitions so far
    n_arc,      \* number of successful arc transitions so far
    sentences,          \* minibatch_parse: word count of each sentence
    batch_size,         \* minibatch_parse: batch_size
    partial_parses,     \* minibatch_parse: one PartialParse per sentence
    unfinished_parses,  \* minibatch_parse: positions in partial_parses
    batch_arcs,         \* minibatch_parse: the list returned
    stuck,              \* sentences whose own prediction parse_step refused
    attempts,           \* parse_step calls made on each PartialParse
    predicted           \* predictions the model made for each PartialParse

\* the variables of minibatch_parse
bvars == <<sentences, batch_size, partial_parses, unfinished_parses,
           batch_arcs, stuck, attempts, predicted>>

vars == <<sentence, stack, next, arcs, graph, pc, last, n_shift, n_arc,
          sentences, batch_size, partial_parses, unfinished_parses,
          batch_arcs, stuck, attempts, predicted>>

\* the PartialParse object as a value
PP == [sentence |-> sentence, stack |-> stack, next |-> next, arcs |-> arcs]

\* PartialParse.__init__(sentence) for a sentence of n words
PartialParse(n) ==
    [sentence |-> <<root_tag>> \o [i \in 1..n |-> "tag"],
     stack    |-> <<0>>,
     next     |-> 1,
     arcs     |-> <<>>]

(* --------------------------- PartialParse.complete ---------------------- *)

\* defective variant: the check of the stack length is left out
complete_no_len(pp) ==
    IF pp.next = Len(pp.sentence)
    THEN IF pp.stack[1] = 0 THEN TRUE ELSE FALSE
    ELSE FALSE

complete(pp) ==
    IF pp.next = Len(pp.sentence)
    THEN IF Len(pp.stack) = 1
         THEN IF pp.stack[1] = 0 THEN TRUE ELSE FALSE
         ELSE FALSE
    ELSE FALSE

(* ------------------------- PartialParse.parse_step ---------------------- *)

\* s with the element at position k removed (del s[k])
DelAt(s, k) == [i \in 1..(Len(s) - 1) |-> IF i < k THEN s[i] ELSE s[i + 1]]

\* the outcome of a parse_step call that raises: the object is untouched
Raise(pp, exc, msg) ==
    [raised |-> exc, msg |-> msg,
     stack |-> pp.stack, next |-> pp.next, arcs |-> pp.arcs]

\* the outcome of a parse_step call that returns
Return(stack_, next_, arcs_) ==
    [raised |-> "none", msg |-> "",
     stack |-> stack_, next |-> next_, arcs |-> arcs_]

\* defective variant: the left-arc is refused only below two stack elements
left_arc_guard2(pp, deprel) ==
    IF Len(pp.stack) < 2
    THEN Raise(pp, "ValueError", "Illegal Left Arc")
    ELSE LET k == Len(pp.stack)
             arc == <<pp.stack[k], IF k >= 2 THEN pp.stack[k - 1] ELSE 0, deprel>>
         IN  Return(DelAt(pp.stack, k - 1), pp.next, Append(pp.arcs, arc))

\* defective variant: the left-arc pops the head (the top) and keeps the dependent
left_arc_del_top(pp, deprel) ==
    IF Len(pp.stack) < 3
    THEN Raise(pp, "ValueError", "Illegal Left Arc")
    ELSE LET k == Len(pp.stack)
             arc == <<pp.stack[k], pp.stack[k - 1], deprel>>
         IN  Return(DelAt(pp.stack, k), pp.next, Append(pp.arcs, arc))

\* defective variant: on a stack of four elements or more the left-arc
\* attaches the third element from the top instead of the second
left_arc_deep(pp, deprel) ==
    IF Len(pp.stack) < 3
    THEN Raise(pp, "ValueError", "Illegal Left Arc")
    ELSE LET k == Len(pp.stack)
             d == IF k >= 4 THEN k - 2 ELSE k - 1
             arc == <<pp.stack[k], pp.stack[d], deprel>>
         IN  Return(DelAt(pp.stack, d), pp.next, Append(pp.arcs, arc))

\* defective variant: the left-arc leaves the dependent on the stack
left_arc_no_pop(pp, deprel) ==
    IF Len(pp.stack) < 3
    THEN Raise(pp, "ValueError", "Illegal Left Arc")
    ELSE LET k == Len(pp.stack)
             arc == <<pp.stack[k], pp.stack[k - 1], deprel>>
         IN  Return(pp.stack, pp.next, Append(pp.arcs, arc))

\* the branch transition_id == self.left_arc_id
left_arc(pp, deprel) ==
    IF Len(pp.stack) < 3
    THEN Raise(pp, "ValueError", "Illegal Left Arc")
    ELSE LET k == Len(pp.stack)
             arc == <<pp.stack[k], pp.stack[k - 1], deprel>>
         IN  Return(DelAt(pp.stack, k - 1), pp.next, Append(pp.arcs, arc))

\* defective variant: the right-arc records the arc with head and dependent swapped
right_arc_swapped(pp, deprel) ==
    IF Len(pp.stack) < 2
    THEN Raise(pp, "ValueError", "Illegal Left Arc")
    ELSE LET k == Len(pp.stack)
             arc == <<pp.stack[k], pp.stack[k - 1], deprel>>
         IN  Return(DelAt(pp.stack, k), pp.next, Append(pp.arcs, arc))

\* defective variant: the right-arc pops the dependent without recording the arc
right_arc_no_arc(pp, deprel) ==
    IF Len(pp.stack) < 2
    THEN Raise(pp, "ValueError", "Illegal Left Arc")
    ELSE Return(DelAt(pp.stack, Len(pp.stack)), pp.next, pp.arcs)

\* defective variant: the right-arc pops the head and keeps the dependent
right_arc_pops_head(pp, deprel) ==
    IF Len(pp.stack) < 2
    THEN Raise(pp, "ValueError", "Illegal Left Arc")
    ELSE LET k == Len(pp.stack)
             arc == <<pp.stack[k - 1], pp.stack[k], deprel>>
         IN  Return(DelAt(pp.stack, k - 1), pp.next, Append(pp.arcs, arc))

\* defective variant: the right-arc is refused below three stack elements
right_arc_guard3(pp, deprel) ==
    IF Len(pp.stack) < 3
    THEN Raise(pp, "ValueError", "Illegal Left Arc")
    ELSE LET k == Len(pp.stack)
             arc == <<pp.stack[k - 1], pp.stack[k], deprel>>
         IN  Return(DelAt(pp.stack, k), pp.next, Append(pp.arcs, arc))

\* the branch transition_id == self.right_arc_id (the message is the code's)
right_arc(pp, deprel) ==
    IF Len(pp.stack) < 2
    THEN Raise(pp, "ValueError", "Illegal Left Arc")
    ELSE LET k == Len(pp.stack)
             arc == <<pp.stack[k - 1], pp.stack[k], deprel>>
         IN  Return(DelAt(pp.stack, k), pp.next, Append(pp.arcs, arc))

\* defective variant: the shift pushes the word after the next one
shift_skip(pp) ==
    IF pp.next = Len(pp.sentence)
    THEN Raise(pp, "ValueError", "Illegal Shift")
    ELSE Return(Append(pp.stack, pp.next + 1), pp.next + 1, pp.arcs)

\* defective variant: the shift does not look at the buffer
shift_no_guard(pp) ==
    Return(Append(pp.stack, pp.next), pp.next + 1, pp.arcs)

\* defective variant: the shift pushes before it looks at the buffer
shift_push_then_raise(pp) ==
    IF pp.next = Len(pp.sentence)
    THEN [raised |-> "ValueError", msg |-> "Illegal Shift",
          stack |-> Append(pp.stack, pp.next), next |-> pp.next,
          arcs |-> pp.arcs]
    ELSE Return(Append(pp.stack, pp.next), pp.next + 1, pp.arcs)

\* the branch transition_id == self.shift_id
shift(pp) ==
    IF pp.next = Len(pp.sentence)
    THEN Raise(pp, "ValueError", "Illegal Shift")
    ELSE Return(Append(pp.stack, pp.next), pp.next + 1, pp.arcs)

parse_step(pp, transition_id, deprel) ==
    IF transition_id = left_arc_id THEN left_arc(pp, deprel)
    ELSE IF transition_id = right_arc_id THEN right_arc(pp, deprel)
    ELSE IF transition_id = shift_id THEN shift(pp)
    ELSE Raise(pp, "ValueError", "Unknown transition")

(* ------------- get_n_leftmost_deps / get_n_rightmost_deps --------------- *)

Reverse(s) == [i \in 1..Len(s) |-> s[Len(s) + 1 - i]]

\* the loop `for arc in <as>:` shared by both queries: deps so far in deps,
\* count is Len(deps); `if n and count == n: break`
RECURSIVE scan_arcs(_, _, _, _)
scan_arcs(as, sentence_idx, n, deps) ==
    IF as = <<>> THEN deps
    ELSE IF Head(as)[1] = sentence_idx
         THEN LET deps2 == Append(deps, Head(as)[2])
              IN  IF n # NoneN /\ n # 0 /\ Len(deps2) = n
                  THEN deps2
                  ELSE scan_arcs(Tail(as), sentence_idx, n, deps2)
         ELSE scan_arcs(Tail(as), sentence_idx, n, deps)

\* defective variant: the early return for n == 0 is left out
get_n_leftmost_deps_no_zero(pp, sentence_idx, n) ==
    scan_arcs(pp.arcs, sentence_idx, n, <<>>)

get_n_leftmost_deps(pp, sentence_idx, n) ==
    IF n = 0 THEN <<>> ELSE scan_arcs(pp.arcs, sentence_idx, n, <<>>)

get_n_rightmost_deps(pp, sentence_idx, n) ==
    IF n = 0 THEN <<>> ELSE scan_arcs(Reverse(pp.arcs), sentence_idx, n, <<>>)

\* the object after pp.get_n_leftmost_deps(sentence_idx, n), with the value
\* returned: the method assigns to no attribute and only reads self.arcs
leftmost_call(pp, sentence_idx, n) ==
    [ret |-> get_n_leftmost_deps(pp, sentence_idx, n),
     stack |-> pp.stack, next |-> pp.next, arcs |-> pp.arcs]

\* defective variant: self.arcs.reverse() in place of reversed(self.arcs)
rightmost_call_in_place(pp, sentence_idx, n) ==
    [ret |-> get_n_rightmost_deps(pp, sentence_idx, n),
     stack |-> pp.stack, next |-> pp.next, arcs |-> Reverse(pp.arcs)]

\* the object after pp.get_n_rightmost_deps(sentence_idx, n), with the value
\* returned: reversed(self.arcs) is an iterator, self.arcs keeps its order
rightmost_call(pp, sentence_idx, n) ==
    [ret |-> get_n_rightmost_deps(pp, sentence_idx, n),
     stack |-> pp.stack, next |-> pp.next, arcs |-> pp.arcs]

(* ------------------------ the gold DependencyGraph ---------------------- *)

\* graph.nodes[i]['deps'] flattened: the dependants of node i (get_deps)
get_deps(g, i) == {d \in DOMAIN g.head : g.head[d] = i}

\* get_left_deps(node): the dependants left of the node
get_left_deps(g, i) == {d \in get_deps(g, i) : d < i}

\* get_right_deps(node): the dependants right of the node
get_right_deps(g, i) == {d \in get_deps(g, i) : d > i}

(* ------------------------ PartialParse.get_oracle ----------------------- *)

\* is_left_dep(head_node, dep_node): <<dep, deprel>>
is_left_dep(g, head_node, dep_node) ==
    IF dep_node > head_node THEN <<FALSE, NoneDeprel>>
    ELSE IF dep_node \in get_deps(g, head_node)
         THEN <<TRUE, g.rel[dep_node]>>
         ELSE <<FALSE, NoneDeprel>>

\* is_right_dep(head_node, dep_node): <<dep, deprel>>
is_right_dep(g, head_node, dep_node) ==
    IF dep_node < head_node THEN <<FALSE, NoneDeprel>>
    ELSE IF dep_node \in get_deps(g, head_node)
         THEN <<TRUE, g.rel[dep_node]>>
         ELSE <<FALSE, NoneDeprel>>

\* the outcome of a get_oracle call that raises
OracleRaise(msg) ==
    [raised |-> "ValueError", msg |-> msg,
     transition_id |-> -1, deprel |-> NoneDeprel]

\* the outcome of a get_oracle call that returns (transition_id, deprel)
OracleReturn(transition_id, deprel) ==
    [raised |-> "none", msg |-> "",
     transition_id |-> transition_id, deprel |-> deprel]

\* defective variant: the closing right-arc from ROOT gets a fixed label
oracle_two_fixed_label(pp, g) ==
    IF pp.next = Len(pp.sentence)
    THEN LET r == is_right_dep(g, pp.stack[1], pp.stack[Len(pp.stack)])
         IN  IF ~r[1]
             THEN OracleRaise("This should be the last right arc (ROOT)")
             ELSE OracleReturn(right_arc_id, "ROOT")
    ELSE OracleReturn(shift_id, NoneDeprel)

\* the branch len(self.stack) == 2
oracle_two(pp, g) ==
    IF pp.next = Len(pp.sentence)
    THEN LET r == is_right_dep(g, pp.stack[1], pp.stack[Len(pp.stack)])
         IN  IF ~r[1]
             THEN OracleRaise("This should be the last right arc (ROOT)")
             ELSE OracleReturn(right_arc_id, r[2])
    ELSE OracleReturn(shift_id, NoneDeprel)

\* defective variant: the right-arc is returned without the look-ahead
oracle_general_no_lookahead(pp, g) ==
    LET k == Len(pp.stack)
        l == is_left_dep(g, pp.stack[k], pp.stack[k - 1])
        r == is_right_dep(g, pp.stack[k - 1], pp.stack[k])
    IN  IF l[1] THEN OracleReturn(left_arc_id, l[2])
        ELSE IF r[1] THEN OracleReturn(right_arc_id, r[2])
        ELSE OracleReturn(shift_id, NoneDeprel)

\* the general branch, len(self.stack) >= 3
oracle_general(pp, g) ==
    LET k == Len(pp.stack)
        l == is_left_dep(g, pp.stack[k], pp.stack[k - 1])
        r == is_right_dep(g, pp.stack[k - 1], pp.stack[k])
        remaining_right_deps ==
            \E right_dep \in get_right_deps(g, pp.stack[k]) :
                right_dep >= pp.next
    IN  IF l[1] THEN OracleReturn(left_arc_id, l[2])
        ELSE IF r[1]
             THEN IF remaining_right_deps
                  THEN OracleReturn(shift_id, NoneDeprel)
                  ELSE OracleReturn(right_arc_id, r[2])
             ELSE OracleReturn(shift_id, NoneDeprel)

get_oracle(pp, g) ==
    IF complete(pp) THEN OracleRaise("PartialParse already completed")
    ELSE IF Len(pp.stack) = 1 THEN OracleReturn(shift_id, NoneDeprel)
    ELSE IF Len(pp.stack) = 2 THEN oracle_two(pp, g)
    ELSE oracle_general(pp, g)

(* ------------------------------ gold trees ------------------------------ *)

\* the k-th ancestor of word i in head function h (0 once ROOT is reached)
RECURSIVE Ancestor(_, _, _)
Ancestor(h, i, k) ==
    IF k = 0 \/ i = 0 THEN i ELSE Ancestor(h, h[i], k - 1)

\* h is a tree rooted at ROOT: every word reaches 0 by head links
IsTree(h) == \A i \in DOMAIN h : Ancestor(h, i, Cardinality(DOMAIN h)) = 0

\* every gold tree over n words, with every labelling
GoldTrees(n) ==
    {g \in [head : [1..n -> 0..n], rel : [1..n -> Deprels]] : IsTree(g.head)}

\* the gold DependencyGraph of a run that uses none
NoGraph == [head |-> <<>>, rel |-> <<>>]

(* ------------------------------- actions -------------------------------- *)

\* a record of the last call: which method, its arguments, what it raised
\* (and which call raised it), and the value it returned
Call(op, transition_id, deprel, sentence_idx, n, raised, msg, by, ret) ==
    [op |-> op, transition_id |-> transition_id, deprel |-> deprel,
     sentence_idx |-> sentence_idx, n |-> n,
     raised |-> raised, msg |-> msg, by |-> by, ret |-> ret]

NoCall == Call("__init__", -1, NoneDeprel, 0, 0, "none", "", "", <<>>)

\* the assignments a parse_step outcome r makes, with the step counters
Apply(r, transition_id) ==
    /\ stack' = r.stack
    /\ next' = r.next
    /\ arcs' = r.arcs
    /\ n_shift' = IF r.raised = "none" /\ transition_id = shift_id
                  THEN n_shift + 1 ELSE n_shift
    /\ n_arc' = IF r.raised = "none"
                   /\ transition_id \in {left_arc_id, right_arc_id}
                THEN n_arc + 1 ELSE n_arc

\* no minibatch_parse call is in progress
NoBatch ==
    /\ sentences = <<>>
    /\ batch_size = 1
    /\ partial_parses = <<>>
    /\ unfinished_parses = <<>>
    /\ batch_arcs = <<>>
    /\ stuck = {}
    /\ attempts = <<>>
    /\ predicted = <<>>

\* PartialParse(sentence) for a sentence of 0..MaxN words
InitParse(g) ==
    /\ \E n \in 0..MaxN :
         /\ sentence = PartialParse(n).sentence
         /\ stack = PartialParse(n).stack
         /\ next = PartialParse(n).next
         /\ arcs = PartialParse(n).arcs
         /\ graph \in g[n]
    /\ last = NoCall
    /\ n_shift = 0
    /\ n_arc = 0
    /\ NoBatch

Init ==
    /\ InitParse([n \in 0..MaxN |-> {NoGraph}])
    /\ pc = "caller"

\* a caller's pp.parse_step(transition_id, deprel), the id drawn from ids
\* and the label from deprels
ParseStepOf(ids, deprels) ==
    /\ pc = "caller"
    /\ \E transition_id \in ids, deprel \in deprels :
         LET r == parse_step(PP, transition_id, deprel)
         IN  /\ Apply(r, transition_id)
             /\ last' = Call("parse_step", transition_id, deprel, 0, 0,
                             r.raised, r.msg,
                             IF r.raised = "none" THEN "" ELSE "parse_step",
                             <<>>)
    /\ UNCHANGED <<sentence, graph, pc>>
    /\ UNCHANGED bvars

\* a caller's pp.parse_step(transition_id, deprel), any id and any label
ParseStep == ParseStepOf(TransitionIds, Deprels)

\* a caller's read of pp.complete
Complete ==
    /\ pc = "caller"
    /\ last' = Call("complete", -1, NoneDeprel, 0, 0, "none", "", "",
                    <<complete(PP)>>)
    /\ UNCHANGED <<sentence, stack, next, arcs, graph, pc, n_shift, n_arc>>
    /\ UNCHANGED bvars

\* a caller's pp.get_n_leftmost_deps(sentence_idx, n)
GetNLeftmostDeps ==
    /\ pc = "caller"
    /\ \E sentence_idx \in 0..(Len(sentence) - 1), n \in {NoneN} \cup 0..MaxCount :
         LET c == leftmost_call(PP, sentence_idx, n)
         IN  /\ last' = Call("get_n_leftmost_deps", -1, NoneDeprel,
                             sentence_idx, n, "none", "", "", c.ret)
             /\ stack' = c.stack
             /\ next' = c.next
             /\ arcs' = c.arcs
    /\ UNCHANGED <<sentence, graph, pc, n_shift, n_arc>>
    /\ UNCHANGED bvars

\* a caller's pp.get_n_rightmost_deps(sentence_idx, n)
GetNRightmostDeps ==
    /\ pc = "caller"
    /\ \E sentence_idx \in 0..(Len(sentence) - 1), n \in {NoneN} \cup 0..MaxCount :
         LET c == rightmost_call(PP, sentence_idx, n)
         IN  /\ last' = Call("get_n_rightmost_deps", -1, NoneDeprel,
                             sentence_idx, n, "none", "", "", c.ret)
             /\ stack' = c.stack
             /\ next' = c.next
             /\ arcs' = c.arcs
    /\ UNCHANGED <<sentence, graph, pc, n_shift, n_arc>>
    /\ UNCHANGED bvars

\* a caller that drives the parse and reads pp.complete
Next == ParseStep \/ Complete

Spec == Init /\ [][Next]_vars

\* the one label of the arcs built between dependant queries: the queries
\* read arc[0] and arc[1] only, never the label arc[2]
QueryDeprels == {"a"}

\* a caller's pp.parse_step(transition_id, deprel) between two queries
QueryParseStep ==
    ParseStepOf({left_arc_id, right_arc_id, shift_id}, QueryDeprels)

\* a caller that drives the parse and queries the dependants built so far
NextQuery == QueryParseStep \/ GetNLeftmostDeps \/ GetNRightmostDeps

SpecQuery == Init /\ [][NextQuery]_vars

(* --------------------------- the oracle loop ---------------------------- *)

InitOracle ==
    /\ InitParse([n \in 0..MaxN |-> GoldTrees(n)])
    /\ pc = "loop"

\* one iteration of `while not pp.complete:`, the body being
\* transition_id, deprel = pp.get_oracle(graph);
\* pp.parse_step(transition_id, deprel), left on ValueError or IndexError
OracleStep ==
    /\ pc = "loop"
    /\ ~complete(PP)
    /\ LET o == get_oracle(PP, graph)
           r == parse_step(PP, o.transition_id, o.deprel)
       IN  IF o.raised # "none"
           THEN /\ pc' = "error"
                /\ last' = Call("oracle_step", o.transition_id, o.deprel, 0, 0,
                                o.raised, o.msg, "get_oracle", <<>>)
                /\ UNCHANGED <<stack, next, arcs, n_shift, n_arc>>
           ELSE /\ pc' = IF r.raised = "none" THEN "loop" ELSE "error"
                /\ last' = Call("oracle_step", o.transition_id, o.deprel, 0, 0,
                                r.raised, r.msg,
                                IF r.raised = "none" THEN "" ELSE "parse_step",
                                <<>>)
                /\ Apply(r, o.transition_id)
    /\ UNCHANGED <<sentence, graph>>
    /\ UNCHANGED bvars

\* the loop condition fails: the parse is complete
OracleLoopExit ==
    /\ pc = "loop"
    /\ complete(PP)
    /\ pc' = "done"
    /\ UNCHANGED <<sentence, stack, next, arcs, graph, last, n_shift, n_arc>>
    /\ UNCHANGED bvars

\* a call of pp.get_oracle(graph) whose result is only looked at
GetOracle ==
    /\ pc \in {"loop", "done"}
    /\ LET o == get_oracle(PP, graph)
       IN  last' = Call("get_oracle", o.transition_id, o.deprel, 0, 0,
                        o.raised, o.msg,
                        IF o.raised = "none" THEN "" ELSE "get_oracle", <<>>)
    /\ UNCHANGED <<sentence, stack, next, arcs, graph, pc, n_shift, n_arc>>
    /\ UNCHANGED bvars

NextOracle == OracleStep \/ OracleLoopExit \/ GetOracle

SpecOracle == InitOracle /\ [][NextOracle]_vars

(* ------------------- vocabulary of the properties ----------------------- *)

\* the number of words of the sentence (ROOT excluded)
NWords == Len(sentence) - 1

\* the arcs as an unordered set of triples
ArcSet(as) == {as[i] : i \in DOMAIN as}

\* the gold tree's (head, dependent, label) triples
GoldArcs(g) == {<<g.head[d], d, g.rel[d]>> : d \in DOMAIN g.head}

\* x lies strictly between the endpoints of the arc a
Between(a, x) ==
    \/ (a[1] < x /\ x < a[2])
    \/ (a[2] < x /\ x < a[1])

\* x lies strictly outside the span of the arc a
Outside(a, x) ==
    \/ (x < a[1] /\ x < a[2])
    \/ (x > a[1] /\ x > a[2])

\* the arcs a and b cross
Cross(a, b) ==
    \/ (Between(a, b[1]) /\ Outside(a, b[2]))
    \/ (Between(a, b[2]) /\ Outside(a, b[1]))

\* no two arcs of the set cross
NoCrossing(S) == \A a \in S, b \in S : ~Cross(a, b)

\* the gold tree is projective
IsProjective(g) == NoCrossing(GoldArcs(g))

\* ROOT has exactly one dependant in the gold tree
SingleRooted(g) == Cardinality(get_deps(g, 0)) = 1

(* ------------------------------ C1 -------------------------------------- *)

\* C1: for every projective gold tree the oracle loop raises no error and
\* ends with the set of arcs equal to the gold tree's set of triples; an
\* error in the loop occurs only when the gold tree is non-projective.
C1_OracleRoundTrip ==
    IsProjective(graph) =>
        /\ pc # "error"
        /\ (pc = "done" => ArcSet(arcs) = GoldArcs(graph))

\* the round trip on the projective gold trees in which ROOT has exactly
\* one dependant (and on the empty sentence)
RoundTripSingleRooted ==
    (IsProjective(graph) /\ (SingleRooted(graph) \/ NWords = 0)) =>
        /\ pc # "error"
        /\ (pc = "done" => ArcSet(arcs) = GoldArcs(graph))

\* every gold tree the loop fails on is non-projective or not single-rooted
ErrorOnlyIfNonProjOrMultiRoot ==
    pc = "error" => (~IsProjective(graph) \/ ~SingleRooted(graph))

(* ------------------------------ C2 -------------------------------------- *)

\* C2: get_oracle raises if the configuration is complete, and on every
\* non-complete configuration reached by following the oracle on a
\* projective gold tree it returns a (transition, label) pair that
\* parse_step accepts in that configuration.
C2_OracleTotalAndLegal ==
    last.op = "get_oracle" =>
        /\ (complete(PP) => last.raised = "ValueError")
        /\ (~complete(PP) /\ IsProjective(graph) =>
               /\ last.raised = "none"
               /\ parse_step(PP, last.transition_id, last.deprel).raised
                      = "none")

\* the last call was a parse_step(transition_id, .) that returned
Succeeded(transition_id) ==
    /\ last.op = "parse_step"
    /\ last.transition_id = transition_id
    /\ last.raised = "none"

\* the last call was a parse_step(transition_id, .) that raised
Refused(transition_id) ==
    /\ last.op = "parse_step"
    /\ last.transition_id = transition_id
    /\ last.raised # "none"

\* the top of the stack and the element under it
Top(s) == s[Len(s)]

Second(s) == s[Len(s) - 1]

(* ------------------------------ C3 -------------------------------------- *)

\* C3: parse_step raises for a left-arc exactly when len(stack) < 3, for a
\* right-arc exactly when len(stack) < 2, for a shift exactly when
\* next == len(sentence), and always for any other transition id; in every
\* other case it succeeds.
C3_LegalityBoundaries ==
    [][last'.op = "parse_step" =>
         ((last'.raised # "none") <=>
              IF last'.transition_id = left_arc_id THEN Len(stack) < 3
              ELSE IF last'.transition_id = right_arc_id THEN Len(stack) < 2
              ELSE IF last'.transition_id = shift_id
                   THEN next = Len(sentence)
                   ELSE TRUE)]_vars

\* a left-arc refused on a stack of exactly two elements
C3_Witness == Refused(left_arc_id) /\ Len(stack) = 2 /\ next < Len(sentence)

(* ------------------------------ C4 -------------------------------------- *)

\* C4: a successful shift appends the value of next to the stack and
\* increments next by 1; the rest of the stack and the arcs are unchanged,
\* whatever the label argument.
C4_ShiftEffect ==
    [][(Succeeded(shift_id))' =>
         /\ stack' = Append(stack, next)
         /\ next' = next + 1
         /\ arcs' = arcs
         /\ sentence' = sentence]_vars

\* a shift that succeeded on a configuration that already had an arc
C4_Witness ==
    /\ Succeeded(shift_id)
    /\ Len(arcs) >= 1
    /\ Len(stack) >= 3
    /\ Top(stack) = next - 1

(* ------------------------------ C5 -------------------------------------- *)

\* C5: a successful left-arc(label) appends exactly the arc
\* (top, second, label) at the end of arcs and deletes second from the
\* stack, top staying on top; next, the other stack elements and the
\* earlier arcs are unchanged.
C5_LeftArcEffect ==
    [][(Succeeded(left_arc_id))' =>
         /\ arcs' = Append(arcs, <<Top(stack), Second(stack), last'.deprel>>)
         /\ stack' = Append(SubSeq(stack, 1, Len(stack) - 2), Top(stack))
         /\ next' = next
         /\ sentence' = sentence]_vars

\* a left-arc that succeeded on a configuration that already had an arc
C5_Witness ==
    /\ Succeeded(left_arc_id)
    /\ Len(arcs) >= 2
    /\ arcs[Len(arcs)][1] = Top(stack)

(* ------------------------------ C6 -------------------------------------- *)

\* C6: a successful right-arc(label) appends exactly the arc
\* (second, top, label) at the end of arcs and pops top, leaving second on
\* top; next, the other stack elements and the earlier arcs are unchanged.
C6_RightArcEffect ==
    [][(Succeeded(right_arc_id))' =>
         /\ arcs' = Append(arcs, <<Second(stack), Top(stack), last'.deprel>>)
         /\ stack' = SubSeq(stack, 1, Len(stack) - 1)
         /\ next' = next
         /\ sentence' = sentence]_vars

\* a right-arc that succeeded on a configuration that already had an arc
\* and left a word on top of the stack
C6_Witness ==
    /\ Succeeded(right_arc_id)
    /\ Len(arcs) >= 2
    /\ Len(stack) >= 2
    /\ arcs[Len(arcs)][1] = Top(stack)

(* ------------------------------ C7 -------------------------------------- *)

\* C7: complete is true if and only if next == len(sentence) and
\* stack == [0]; reading it changes nothing; the initial configuration of
\* a sentence with at least one word is not complete.
C7_CompleteIff ==
    /\ [](complete(PP) <=> (next = Len(sentence) /\ stack = <<0>>))
    /\ []((last = NoCall /\ NWords >= 1) => ~complete(PP))
    /\ [][last'.op = "complete" =>
            UNCHANGED <<sentence, stack, next, arcs>>]_vars

\* complete was read as true on a finished parse of two words or more
C7_Witness ==
    /\ last.op = "complete"
    /\ last.ret = <<TRUE>>
    /\ NWords >= 2
    /\ Len(arcs) = NWords

(* ------------------------------ C8 -------------------------------------- *)

\* the positions of arcs whose dependent is word i
ArcsWithDep(as, i) == {k \in DOMAIN as : as[k][2] = i}

\* C8: for a sentence of n words, every sequence of successful transitions
\* from the initial configuration to a complete one has exactly 2n
\* transitions, n shifts and n arc transitions, and the final arc list has
\* exactly n arcs in which each index 1..n is the dependent exactly once.
C8_TwoNTransitions ==
    complete(PP) =>
        /\ n_shift + n_arc = 2 * NWords
        /\ n_shift = NWords
        /\ n_arc = NWords
        /\ Len(arcs) = NWords
        /\ \A i \in 1..NWords : Cardinality(ArcsWithDep(arcs, i)) = 1

\* a complete parse of two words or more that used a left-arc
C8_Witness ==
    /\ complete(PP)
    /\ NWords >= 2
    /\ n_shift + n_arc = 2 * NWords
    /\ \E k \in DOMAIN arcs : arcs[k][1] > arcs[k][2]

(* ------------------------------ C9 -------------------------------------- *)

\* the direct dependants of word i recorded in the arcs
DepsOf(as, i) == {as[k][2] : k \in {j \in DOMAIN as : as[j][1] = i}}

\* the elements of a set of indices in ascending order
RECURSIVE Ascending(_)
Ascending(S) ==
    IF S = {} THEN <<>>
    ELSE LET m == CHOOSE x \in S : \A y \in S : x <= y
         IN  <<m>> \o Ascending(S \ {m})

\* the elements of a set of indices in descending order
Descending(S) == Reverse(Ascending(S))

\* the first n elements of s, all of them when n is None or too large
FirstN(s, n) == IF n = NoneN \/ n >= Len(s) THEN s ELSE SubSeq(s, 1, n)

\* C9: get_n_leftmost_deps(i, n) returns the direct dependents of i closest
\* to the beginning of the sentence, leftmost first: position 0 holds the
\* smallest index, position 1 the next smallest, and so on.
C9_LeftmostAscending ==
    last.op = "get_n_leftmost_deps" =>
        last.ret = FirstN(Ascending(DepsOf(arcs, last.sentence_idx)), last.n)

(* ------------------------------ C10 ------------------------------------- *)

\* C10: get_n_rightmost_deps(i, n) returns the direct dependents of i
\* closest to the end of the sentence, rightmost first: position 0 holds
\* the largest index, position 1 the next largest, and so on.
C10_RightmostDescending ==
    last.op = "get_n_rightmost_deps" =>
        last.ret = FirstN(Descending(DepsOf(arcs, last.sentence_idx)), last.n)

(* ------------------------------ C11 ------------------------------------- *)

\* the last call was one of the two dependant queries
LastIsQuery == last.op \in {"get_n_leftmost_deps", "get_n_rightmost_deps"}

\* the number of arcs whose head is word i
NumArcsWithHead(as, i) == Cardinality({k \in DOMAIN as : as[k][1] = i})

\* the elements of a sequence
Range(s) == {s[k] : k \in DOMAIN s}

\* C11: for a count n >= 0 both queries return exactly min(n, d) distinct
\* indices, d being the number of arcs whose head is i, each the dependent
\* of an arc whose head is i; an absent n returns all d.
C11_QueryCount ==
    LastIsQuery =>
        LET d == NumArcsWithHead(arcs, last.sentence_idx)
        IN  /\ Len(last.ret) = IF last.n = NoneN \/ last.n > d THEN d
                               ELSE last.n
            /\ Cardinality(Range(last.ret)) = Len(last.ret)
            /\ Range(last.ret) \subseteq DepsOf(arcs, last.sentence_idx)

\* a query for one dependant of a word that has two
C11_Witness ==
    /\ LastIsQuery
    /\ last.n = 1
    /\ NumArcsWithHead(arcs, last.sentence_idx) = 2
    /\ Len(last.ret) = 1

(* ------------------------------ C12 ------------------------------------- *)

\* C12: the two queries never mutate the configuration (stack, next, arcs
\* and sentence are the same after the call as before), and the same query
\* made again returns the same result.
C12_QueriesPure ==
    /\ [][LastIsQuery' => UNCHANGED <<sentence, stack, next, arcs>>]_vars
    /\ [](last.op = "get_n_leftmost_deps" =>
             get_n_leftmost_deps(PP, last.sentence_idx, last.n) = last.ret)
    /\ [](last.op = "get_n_rightmost_deps" =>
             get_n_rightmost_deps(PP, last.sentence_idx, last.n) = last.ret)

\* a rightmost query that returned two dependants
C12_Witness ==
    /\ last.op = "get_n_rightmost_deps"
    /\ Len(last.ret) >= 2
    /\ Len(stack) >= 2

(* --------------------------- minibatch_parse ---------------------------- *)

\* the lesser of two numbers
Min(a, b) == IF a < b THEN a ELSE b

\* minibatch: unfinished_parses itself, or its first batch_size elements
minibatch_of(unfinished, size) ==
    IF Len(unfinished) < size THEN unfinished
    ELSE SubSeq(unfinished, 1, size)

\* the body of `for i in range(len(minibatch))` for Python index i, on the
\* loop state st = [pps, to_del, stuck, attempts]: pp = minibatch[i],
\* parse_step in a try, to_del.append(i) on ValueError, and
\* to_del.append(i) if pp.complete
for_body(st, minibatch, td_pairs, i) ==
    LET j == minibatch[i + 1]
        pp == st.pps[j]
        r == parse_step(pp, td_pairs[i + 1][1], td_pairs[i + 1][2])
        pp2 == [pp EXCEPT !.stack = r.stack, !.next = r.next, !.arcs = r.arcs]
        del1 == IF r.raised = "ValueError" THEN Append(st.to_del, i)
                ELSE st.to_del
        del2 == IF complete(pp2) THEN Append(del1, i) ELSE del1
    IN  [pps |-> [st.pps EXCEPT ![j] = pp2],
         to_del |-> del2,
         stuck |-> IF r.raised = "ValueError" THEN st.stuck \cup {j}
                   ELSE st.stuck,
         attempts |-> [st.attempts EXCEPT ![j] = @ + 1]]

\* the loop `for i in range(len(minibatch))` from Python index i on
RECURSIVE for_loop(_, _, _, _)
for_loop(st, minibatch, td_pairs, i) ==
    IF i >= Len(minibatch) THEN st
    ELSE for_loop(for_body(st, minibatch, td_pairs, i), minibatch, td_pairs,
                  i + 1)

\* the loop `for i in reversed(to_del): del unfinished_parses[i]`, dels
\* being reversed(to_del); del raises IndexError past the end of the list
RECURSIVE del_loop(_, _)
del_loop(unfinished, dels) ==
    IF dels = <<>> THEN [raised |-> "none", unfinished |-> unfinished]
    ELSE IF Head(dels) >= Len(unfinished)
         THEN [raised |-> "IndexError", unfinished |-> unfinished]
         ELSE del_loop(DelAt(unfinished, Head(dels) + 1), Tail(dels))

\* defective variant: the arc lists are collected last sentence first
collect_arcs_reversed(pps) ==
    [i \in 1..Len(pps) |-> pps[Len(pps) + 1 - i].arcs]

\* the closing loop `for pp in partial_parses: arcs.append(pp.arcs)`
collect_arcs(pps) == [i \in 1..Len(pps) |-> pps[i].arcs]

\* the lists of at most MaxSentences sentences of at most MaxWords words
SentenceLists ==
    UNION {[1..k -> 0..MaxWords] : k \in 0..MaxSentences}

\* the call minibatch_parse(sentences, model, batch_size), up to the while
InitBatch ==
    /\ sentences \in SentenceLists
    /\ batch_size \in 1..MaxBatch
    /\ partial_parses = [i \in 1..Len(sentences) |-> PartialParse(sentences[i])]
    /\ unfinished_parses = [i \in 1..Len(sentences) |-> i]
    /\ batch_arcs = <<>>
    /\ stuck = {}
    /\ attempts = [i \in 1..Len(sentences) |-> 0]
    /\ predicted = [i \in 1..Len(sentences) |-> 0]
    /\ pc = "while"
    /\ sentence = PartialParse(0).sentence
    /\ stack = PartialParse(0).stack
    /\ next = PartialParse(0).next
    /\ arcs = PartialParse(0).arcs
    /\ graph = NoGraph
    /\ last = NoCall
    /\ n_shift = 0
    /\ n_arc = 0

\* one iteration of `while len(unfinished_parses):` the minibatch, the
\* model's predictions for it, the for loop and the deletions
Round ==
    /\ pc = "while"
    /\ Len(unfinished_parses) > 0
    /\ LET minibatch == minibatch_of(unfinished_parses, batch_size)
       IN  \E td_pairs \in [1..Len(minibatch) -> Predictions] :
             LET f == for_loop([pps |-> partial_parses, to_del |-> <<>>,
                                stuck |-> stuck, attempts |-> attempts],
                               minibatch, td_pairs, 0)
                 d == del_loop(unfinished_parses, Reverse(f.to_del))
             IN  /\ partial_parses' = f.pps
                 /\ stuck' = f.stuck
                 /\ attempts' = f.attempts
                 /\ predicted' =
                        [j \in DOMAIN predicted |->
                            IF j \in {minibatch[k] : k \in DOMAIN minibatch}
                            THEN predicted[j] + 1 ELSE predicted[j]]
                 /\ unfinished_parses' = d.unfinished
                 /\ pc' = IF d.raised = "none" THEN "while" ELSE "raised"
    /\ UNCHANGED <<sentences, batch_size, batch_arcs>>
    /\ UNCHANGED <<sentence, stack, next, arcs, graph, last, n_shift, n_arc>>

\* the while loop ends and the arc lists are returned
BatchReturn ==
    /\ pc = "while"
    /\ Len(unfinished_parses) = 0
    /\ batch_arcs' = collect_arcs(partial_parses)
    /\ pc' = "returned"
    /\ UNCHANGED <<sentences, batch_size, partial_parses, unfinished_parses,
                   stuck, attempts, predicted>>
    /\ UNCHANGED <<sentence, stack, next, arcs, graph, last, n_shift, n_arc>>

NextBatch == Round \/ BatchReturn

SpecBatch == InitBatch /\ [][NextBatch]_vars

\* the function is sequential code: it keeps running while it has a step
SpecBatchFair == SpecBatch /\ WF_vars(NextBatch)

(* ------------------------------ C13 ------------------------------------- *)

\* the positions of partial_parses still in unfinished_parses
Unfinished == Range(unfinished_parses)

\* C13: minibatch_parse returns exactly one arc list per input sentence and
\* its i-th element is the arc list of the configuration built for
\* sentences[i] (so its arcs lie within that sentence), for every batch
\* size and whatever order the parses finish or get stuck in.
C13_OutputOrder ==
    pc = "returned" =>
        /\ Len(batch_arcs) = Len(sentences)
        /\ \A i \in 1..Len(sentences) :
             /\ batch_arcs[i] = partial_parses[i].arcs
             /\ partial_parses[i].sentence = PartialParse(sentences[i]).sentence
             /\ \A k \in DOMAIN batch_arcs[i] :
                  /\ batch_arcs[i][k][1] \in 0..sentences[i]
                  /\ batch_arcs[i][k][2] \in 1..sentences[i]

\* parsed one at a time, the first sentence reaches its end and the second
\* stops at its first prediction: the two arc lists differ (one empty
\* sentence would end the call with an error instead)
C13_Witness ==
    /\ pc = "returned"
    /\ Len(sentences) >= 2
    /\ batch_size = 1
    /\ \A i \in 1..Len(sentences) : sentences[i] >= 1
    /\ Len(batch_arcs[1]) = sentences[1]
    /\ batch_arcs[2] = <<>>

(* ------------------------------ C14 ------------------------------------- *)

\* C14: a sentence is retired from the unfinished set only because its own
\* prediction was illegal or it became complete, so that the arcs returned
\* for it are those of its own predictions up to its first illegal one or
\* its completion; a sentence whose first prediction is illegal gets an
\* empty arc list.
C14_Isolation ==
    pc \in {"while", "returned"} =>
        /\ \A j \in 1..Len(sentences) :
             j \notin Unfinished =>
                 (j \in stuck \/ complete(partial_parses[j]))
        /\ \A j \in 1..Len(sentences) :
             (j \in stuck /\ attempts[j] = 1) => partial_parses[j].arcs = <<>>
        /\ (pc = "returned" =>
               \A j \in 1..Len(sentences) :
                   batch_arcs[j] = partial_parses[j].arcs)

(* ------------------------------ C15 ------------------------------------- *)

\* C15: minibatch_parse surfaces no error to its caller, for every list of
\* sentences (sentences with no words included), every batch size >= 1 and
\* every model that returns one pair per minibatch member.
C15_NoErrorSurfaces == pc # "raised"

(* ------------------------------ C16 ------------------------------------- *)

\* C16: minibatch_parse terminates: the unfinished set eventually becomes
\* empty and the function returns.
C16_Terminates == <>(pc = "returned")

(* ------------------------------ C17 ------------------------------------- *)

\* the configurations neither complete nor stuck, in input order
RECURSIVE LiveFrom(_)
LiveFrom(j) ==
    IF j > Len(partial_parses) THEN <<>>
    ELSE IF ~complete(partial_parses[j]) /\ j \notin stuck
         THEN <<j>> \o LiveFrom(j + 1)
         ELSE LiveFrom(j + 1)

\* C17: at every call of model.predict the argument is the first
\* min(batch_size, u) configurations, in input order, of the u that are
\* neither complete nor stuck; it has at most batch_size members, none
\* complete or stuck, and each member has received exactly one parse_step
\* attempt per prediction made for it.
C17_MinibatchComposition ==
    (pc = "while" /\ Len(unfinished_parses) > 0) =>
        LET minibatch == minibatch_of(unfinished_parses, batch_size)
            live == LiveFrom(1)
        IN  /\ minibatch = SubSeq(live, 1, Min(batch_size, Len(live)))
            /\ Len(minibatch) <= batch_size
            /\ \A k \in DOMAIN minibatch :
                 /\ ~complete(partial_parses[minibatch[k]])
                 /\ minibatch[k] \notin stuck
            /\ \A j \in 1..Len(sentences) : attempts[j] = predicted[j]

\* every sentence given to minibatch_parse has at least one word
NoEmptySentence == \A i \in 1..Len(sentences) : sentences[i] >= 1

\* without a sentence of no words the driver isolates the sentences
IsolationNoEmptySentence == NoEmptySentence => C14_Isolation

\* without a sentence of no words the driver raises nothing
NoErrorNoEmptySentence == NoEmptySentence => C15_NoErrorSurfaces

\* without a sentence of no words every minibatch is as C17 states
CompositionNoEmptySentence == NoEmptySentence => C17_MinibatchComposition

\* without a sentence of no words the function returns
TerminatesNoEmptySentence == NoEmptySentence => <>(pc = "returned")

\* the while loop always ends, by a return or by an error
LoopAlwaysEnds == <>(pc \in {"returned", "raised"})

(* ------------------------------ C18 ------------------------------------- *)

\* C18: after every sequence of parse_step calls, successful or failed,
\* the stack is non-empty, stack[0] == 0 and 1 <= next <= len(sentence).
C18_WellFormed ==
    /\ Len(stack) >= 1
    /\ stack[1] = 0
    /\ 1 <= next
    /\ next <= Len(sentence)

\* a shift refused on an empty buffer after successful transitions
C18_Witness ==
    /\ Refused(shift_id)
    /\ next = Len(sentence)
    /\ NWords >= 2
    /\ Len(stack) >= 2
    /\ Len(arcs) >= 1

(* ------------------------------ C19 ------------------------------------- *)

\* C19: no two arcs have the same dependent index and no arc has ROOT
\* (index 0) as its dependent.
C19_SingleHead ==
    /\ \A k1 \in DOMAIN arcs, k2 \in DOMAIN arcs :
         arcs[k1][2] = arcs[k2][2] => k1 = k2
    /\ \A k \in DOMAIN arcs : arcs[k][2] # 0

\* a left-arc made on a stack of exactly three elements, ROOT below the
\* dependent, with an earlier arc recorded
C19_Witness ==
    /\ Succeeded(left_arc_id)
    /\ Len(stack) = 2
    /\ Len(arcs) >= 2

(* ------------------------------ C20 ------------------------------------- *)

\* C20: while following the oracle on a projective gold tree, whenever
\* get_oracle returns left-arc or right-arc the word the transition removes
\* from the stack has every one of its gold dependents recorded in arcs;
\* in the right-arc branch with len(stack) >= 3 the oracle returns shift
\* whenever top has a gold dependent with index >= next.
C20_NoStrandedDependents ==
    (pc = "loop" /\ ~complete(PP) /\ IsProjective(graph)) =>
        LET o == get_oracle(PP, graph)
        IN  /\ (o.raised = "none" /\ o.transition_id = left_arc_id) =>
                   get_deps(graph, Second(stack))
                       \subseteq DepsOf(arcs, Second(stack))
            /\ (o.raised = "none" /\ o.transition_id = right_arc_id) =>
                   get_deps(graph, Top(stack)) \subseteq DepsOf(arcs, Top(stack))
            /\ (/\ Len(stack) >= 3
                /\ ~is_left_dep(graph, Top(stack), Second(stack))[1]
                /\ is_right_dep(graph, Second(stack), Top(stack))[1]
                /\ \E d \in get_deps(graph, Top(stack)) : d >= next) =>
                   (o.raised = "none" /\ o.transition_id = shift_id)

\* the oracle attached by a right-arc a word that has a gold dependent to
\* its right, which the look-ahead had it wait for
C20_Witness ==
    /\ last.op = "oracle_step"
    /\ last.raised = "none"
    /\ last.transition_id = right_arc_id
    /\ IsProjective(graph)
    /\ Len(stack) >= 2
    /\ get_right_deps(graph, arcs[Len(arcs)][2]) # {}
    /\ get_deps(graph, arcs[Len(arcs)][2])
           \subseteq DepsOf(arcs, arcs[Len(arcs)][2])

(* ------------------------------ C21 ------------------------------------- *)

\* parse_step(transition_id, .) succeeds on the configuration pp
Applicable(pp, transition_id) ==
    \A deprel \in Deprels : parse_step(pp, transition_id, deprel).raised = "none"

\* C21: a reachable configuration is complete if and only if no transition
\* is applicable to it: on a complete one shift, left-arc and right-arc all
\* raise, on a non-complete one shift or right-arc succeeds.
C21_CompleteIffNoMove ==
    /\ complete(PP) =>
           \A transition_id \in {shift_id, left_arc_id, right_arc_id},
              deprel \in Deprels :
                parse_step(PP, transition_id, deprel).raised # "none"
    /\ ~complete(PP) =>
           (Applicable(PP, shift_id) \/ Applicable(PP, right_arc_id))

\* the buffer is empty and only the right-arc from ROOT is left, which the
\* caller has not tried: the last move was a shift that was refused
C21_Witness ==
    /\ Refused(shift_id)
    /\ next = Len(sentence)
    /\ Len(stack) = 2
    /\ NWords >= 2
    /\ ~complete(PP)

(* ------------------------------ C22 ------------------------------------- *)

\* the kind of transition an id asks for: every id that is none of the
\* three known ones is the unknown kind
Kind(transition_id) ==
    IF transition_id \in {left_arc_id, right_arc_id, shift_id}
    THEN transition_id
    ELSE 3

\* C22: a failed parse_step raises an error that identifies the
\* precondition violated: a refused left-arc, right-arc, shift and an
\* unknown id are reported with four distinct errors, so the error of a
\* refused call is not the one a refused call of another kind raises.
C22_ErrorsIdentify ==
    (last.op = "parse_step" /\ last.raised # "none") =>
        \A other \in TransitionIds :
            Kind(other) # Kind(last.transition_id) =>
                LET r == parse_step(PP, other, last.deprel)
                IN  r.raised # "none" =>
                        <<r.raised, r.msg>> # <<last.raised, last.msg>>

\* the errors of the refusals but the right-arc's are pairwise distinct
ErrorsIdentifyButRightArc ==
    (last.op = "parse_step" /\ last.raised # "none"
         /\ last.transition_id # right_arc_id) =>
        \A other \in TransitionIds \ {right_arc_id} :
            Kind(other) # Kind(last.transition_id) =>
                LET r == parse_step(PP, other, last.deprel)
                IN  r.raised # "none" =>
                        <<r.raised, r.msg>> # <<last.raised, last.msg>>

(* ------------------------------ C23 ------------------------------------- *)

\* C23: every arc appended by a transition that get_oracle chose is an arc
\* of the gold tree with the gold tree's own label, for any gold tree,
\* projective or not, the closing right-arc from ROOT included; so when the
\* oracle loop reaches a complete configuration its set of arcs is the
\* gold one.
C23_OracleArcsAreGold ==
    /\ ArcSet(arcs) \subseteq GoldArcs(graph)
    /\ complete(PP) => ArcSet(arcs) = GoldArcs(graph)

\* the loop ended on a sentence of two words or more whose word under ROOT
\* has the label "b" in the gold tree, another word having the label "a"
C23_Witness ==
    /\ pc = "done"
    /\ NWords >= 2
    /\ arcs[Len(arcs)][1] = 0
    /\ arcs[Len(arcs)][3] = "b"
    /\ \E k \in DOMAIN arcs : arcs[k][3] = "a"

(* ------------------- oracle_test.py: is_non_proj ------------------------ *)

\* is_inside(range_tuple, number)
is_inside(range_tuple, number) ==
    IF number < range_tuple[2] /\ number > range_tuple[1] THEN TRUE
    ELSE IF number > range_tuple[2] /\ number < range_tuple[1] THEN TRUE
    ELSE FALSE

\* is_non_proj(graph_arcs): the loops over i and j >= i return True at the
\* first pair that meets one of the four conditions, False when none does
is_non_proj(graph_arcs) ==
    \E i \in 1..Len(graph_arcs) : \E j \in i..Len(graph_arcs) :
        \/ (is_inside(graph_arcs[i], graph_arcs[j][1])
               /\ ~is_inside(graph_arcs[i], graph_arcs[j][2]))
        \/ (is_inside(graph_arcs[i], graph_arcs[j][2])
               /\ ~is_inside(graph_arcs[i], graph_arcs[j][1]))
        \/ (is_inside(graph_arcs[j], graph_arcs[i][1])
               /\ ~is_inside(graph_arcs[j], graph_arcs[i][2]))
        \/ (is_inside(graph_arcs[j], graph_arcs[i][2])
               /\ ~is_inside(graph_arcs[j], graph_arcs[i][1]))

\* list(transducer.graph2arc(graph, False)): the gold (head, dependent,
\* label) triples, the form pp.arcs is compared with
graph2arc(g) == [d \in 1..Len(g.head) |-> <<g.head[d], d, g.rel[d]>>]

\* the test is about to look at a gold tree
InitNonProj ==
    /\ InitParse([n \in 0..MaxN |-> GoldTrees(n)])
    /\ pc = "graph"

\* graph_arcs = list(transducer.graph2arc(graph, False));
\* is_non_proj(graph_arcs)
IsNonProj ==
    /\ pc = "graph"
    /\ last' = Call("is_non_proj", -1, NoneDeprel, 0, 0, "none", "", "",
                    <<is_non_proj(graph2arc(graph))>>)
    /\ pc' = "checked"
    /\ UNCHANGED <<sentence, stack, next, arcs, graph, n_shift, n_arc>>
    /\ UNCHANGED bvars

NextNonProj == IsNonProj

SpecNonProj == InitNonProj /\ [][NextNonProj]_vars

(* ------------------------------ C24 ------------------------------------- *)

\* C24: is_non_proj(graph_arcs) returns True if and only if the arc list
\* holds two arcs that cross (an endpoint of one strictly between the
\* endpoints of the other, its other endpoint strictly outside them); it
\* returns False for every projective tree, arcs sharing an endpoint
\* included.
C24_NonProjIffCrossing ==
    last.op = "is_non_proj" =>
        (last.ret = <<TRUE>> <=> ~IsProjective(graph))

\* every tree with two crossing arcs is reported
CrossingIsReported ==
    (last.op = "is_non_proj" /\ ~IsProjective(graph)) => last.ret = <<TRUE>>

\* a tree is reported exactly when an endpoint of one arc lies strictly
\* between the endpoints of another
ReportedIffNested ==
    last.op = "is_non_proj" =>
        (last.ret = <<TRUE>> <=>
            \E a \in GoldArcs(graph), b \in GoldArcs(graph) :
                Between(a, b[1]) \/ Between(a, b[2]))

(* ------------------------------ C25 ------------------------------------- *)

\* C25: a parse_step call that raises leaves the configuration as it was:
\* stack, next and arcs (and the sentence) are unchanged, so the caller can
\* try another transition on the same configuration.
C25_FailureLeavesUnchanged ==
    [][(last'.op = "parse_step" /\ last'.raised # "none") =>
           /\ UNCHANGED <<sentence, stack, next, arcs>>
           /\ \A transition_id \in TransitionIds, deprel \in Deprels :
                  parse_step(PP', transition_id, deprel)
                      = parse_step(PP, transition_id, deprel)]_vars

\* a right-arc refused after an arc was built, with a word left to shift
C25_Witness ==
    /\ Refused(right_arc_id)
    /\ Len(arcs) >= 1
    /\ next < Len(sentence)
    /\ parse_step(PP, shift_id, NoneDeprel).raised = "none"

(* ------------------------------ C26 ------------------------------------- *)

\* C26: in every configuration reached by parse_step calls the stack is
\* strictly increasing from bottom to top and every stack element is below
\* next; each index in 1..next-1 is either on the stack or the dependent of
\* exactly one arc, never both; no index >= next is in the stack or in an
\* arc; and len(arcs) == next - len(stack).
C26_Bookkeeping ==
    /\ \A i \in 1..(Len(stack) - 1) : stack[i] < stack[i + 1]
    /\ \A i \in DOMAIN stack : stack[i] < next
    /\ \A w \in 1..(next - 1) :
         IF w \in Range(stack)
         THEN ArcsWithDep(arcs, w) = {}
         ELSE Cardinality(ArcsWithDep(arcs, w)) = 1
    /\ \A k \in DOMAIN arcs : arcs[k][1] < next /\ arcs[k][2] < next
    /\ Len(arcs) = next - Len(stack)

\* a word shifted on top of the head of a left-arc: two words on the
\* stack, one attached, none left in the buffer
C26_Witness ==
    /\ Succeeded(shift_id)
    /\ Len(stack) = 3
    /\ Len(arcs) = 1
    /\ arcs[1][1] > arcs[1][2]
    /\ next = Len(sentence)

(* ------------------------------ C27 ------------------------------------- *)

\* the heads the arcs give to word w
Heads(as, w) == {as[k][1] : k \in ArcsWithDep(as, w)}

\* the indices reached from the set S by one to k head links
RECURSIVE Above(_, _, _)
Above(as, S, k) ==
    IF k = 0 \/ S = {} THEN {}
    ELSE LET H == UNION {Heads(as, w) : w \in S}
         IN  H \cup Above(as, H, k - 1)

\* C27: in every configuration reached by legal transitions the arcs form
\* a projective forest: following head links from a word never returns to
\* it and no two arcs cross; a complete configuration holds a projective
\* tree rooted at ROOT, every word having one head and reaching ROOT.
C27_ProjectiveForest ==
    /\ \A w \in 0..NWords : w \notin Above(arcs, {w}, Len(arcs) + 1)
    /\ NoCrossing(ArcSet(arcs))
    /\ complete(PP) =>
           \A w \in 1..NWords :
               /\ Cardinality(ArcsWithDep(arcs, w)) = 1
               /\ 0 \in Above(arcs, {w}, Len(arcs) + 1)

\* a complete parse of three words in which one arc spans another
C27_Witness ==
    /\ complete(PP)
    /\ NWords = 3
    /\ \E a \in ArcSet(arcs), b \in ArcSet(arcs) :
           Between(a, b[1]) /\ Between(a, b[2])

=============================================================================
